---- MODULE Spec2Model ----
(***************************************************************************)
(* MyFitnessPal -> Notion nutrition sync (src/nutrition.py).               *)
(*                                                                         *)
(* Numbers are exact rationals held as integers in units of 1/Scale, so a  *)
(* provider value of 1.5 is 3 when Scale = 2.  A Python None is the empty  *)
(* sequence, a present value v is <<v>>, and a dict is a function whose    *)
(* DOMAIN is the set of keys it holds.                                     *)
(***************************************************************************)
EXTENDS Integers, Sequences, FiniteSets, TLC

VARIABLES
    NOTION_TOKEN,        \* TRUE iff the environment sets NOTION_TOKEN
    NOTION_DATABASE_ID,  \* TRUE iff the environment sets NOTION_MFP_DATABASE_ID
    store,               \* the Notion database: pages in query-result order
    next_id,             \* the identifier the store gives the next page
    today_local,         \* the current local calendar date
    dates_to_sync,       \* main's list of dates
    idx,                 \* how many dates of dates_to_sync the loop has taken
    pc,                  \* position in main, or in a direct call
    resp,                \* what the provider answered to the last read
    mfp_data,            \* main's mfp_data: None or <<snapshot>>
    existing_page,       \* main's existing_page: None or <<page>>
    needs,               \* the last result of entry_needs_update
    decision,            \* what the loop body did for the last date
    log,                 \* requests issued by the current run, in order
    written,             \* {<<page id, snapshot>>}: last successful write per page
    reads                \* provider reads made so far, over all runs

vars == <<NOTION_TOKEN, NOTION_DATABASE_ID, store, next_id, today_local,
          dates_to_sync, idx, pc, resp, mfp_data, existing_page, needs,
          decision, log, written, reads>>

(***************************************************************************)
(* Bounds of the model.                                                    *)
(***************************************************************************)
Scale == 2        \* numbers are multiples of 1/Scale
MaxVal == 3       \* provider values range over 0..MaxVal (in 1/Scale units)
MaxPerturb == 1   \* stored fields that may differ from a snapshot in a direct call
MaxReads == 3     \* provider reads over all runs
MaxDays == 2      \* length of dates_to_sync
MaxDate == 2      \* today_local goes from 1 up to MaxDate

(***************************************************************************)
(* Notion property names.                                                  *)
(***************************************************************************)
NOTION_DATE_PROP == "Date"
NOTION_CALS_IN_PROP == "Calories In"
NOTION_CALS_OUT_PROP == "Calories Out (Exercise)"
NOTION_NET_CALS_PROP == "Net Calories"
NOTION_PROTEIN_PROP == "Protein (g)"
NOTION_CARBS_PROP == "Carbs (g)"
NOTION_FATS_PROP == "Fats (g)"
NOTION_WATER_PROP == "Water (ml)"

CoreProps ==
    {NOTION_CALS_IN_PROP, NOTION_CALS_OUT_PROP, NOTION_NET_CALS_PROP,
     NOTION_PROTEIN_PROP, NOTION_CARBS_PROP, NOTION_FATS_PROP}

NumberProps == CoreProps \cup {NOTION_WATER_PROP}

(***************************************************************************)
(* Python values.                                                          *)
(***************************************************************************)
None == <<>>
Some(v) == <<v>>
Absent == <<0, 0>>   \* marks a key left out when a dict is built

EmptyDict == [k \in {} |-> None]

MkDict(keys, val) == [k \in {j \in keys : val[j] # Absent} |-> val[k]]

\* dict.get(key, 0)
DictGet(d, key) == IF key \in DOMAIN d THEN d[key] ELSE Some(0)

\* x or 0, for x a number or None
OrZero(x) == IF x = None THEN 0 ELSE x[1]

\* round(x): nearest integer, ties to the even one (result in 1/Scale units)
round(x) ==
    LET q == x \div Scale
        r == x % Scale
    IN  IF 2 * r < Scale THEN Scale * q
        ELSE IF 2 * r > Scale THEN Scale * (q + 1)
        ELSE IF q % 2 = 0 THEN Scale * q
        ELSE Scale * (q + 1)

IsInteger(x) == x % Scale = 0

(***************************************************************************)
(* get_mfp_data_for_date                                                   *)
(***************************************************************************)
\* the inner loop: for entry in exercise_group.entries
RECURSIVE SumEntries(_, _)
SumEntries(entries, acc) ==
    IF entries = <<>> THEN [ok |-> TRUE, v |-> acc]
    ELSE LET burned == DictGet(Head(entries), "calories burned")
         IN  IF burned = None
             THEN [ok |-> FALSE, v |-> acc]      \* int += None raises
             ELSE SumEntries(Tail(entries), acc + burned[1])

\* the outer loop: for exercise_group in day.exercises
RECURSIVE SumExercises(_, _)
SumExercises(groups, acc) ==
    IF groups = <<>> THEN [ok |-> TRUE, v |-> acc]
    ELSE LET g == SumEntries(Head(groups), acc)
         IN  IF g.ok THEN SumExercises(Tail(groups), g.v) ELSE g

\* variant: the macro totals are passed on without round()
get_mfp_data_for_date_unrounded(day, target_date) ==
    IF day.status # "ok" THEN None
    ELSE
      LET calories_in == DictGet(day.totals, "calories")
          out == SumExercises(day.exercises, 0)
      IN  IF ~out.ok \/ calories_in = None THEN None
          ELSE Some([date |-> target_date,
                     calories_in |-> round(OrZero(calories_in)),
                     calories_out_exercise |-> round(out.v),
                     net_calories |-> round(calories_in[1] - out.v),
                     protein |-> OrZero(DictGet(day.totals, "protein")),
                     carbs |-> OrZero(DictGet(day.totals, "carbohydrates")),
                     fats |-> OrZero(DictGet(day.totals, "fat")),
                     water_ml |-> IF day.water # None THEN day.water[1] ELSE 0])

\* variant: a day without data yields an all-zero snapshot instead of None
get_mfp_data_for_date_zero_on_nodata(day, target_date) ==
    IF day.status = "ok" /\ DictGet(day.totals, "calories") # None
    THEN get_mfp_data_for_date_unrounded(day, target_date)
    ELSE Some([date |-> target_date, calories_in |-> 0, calories_out_exercise |-> 0,
               net_calories |-> 0, protein |-> 0, carbs |-> 0, fats |-> 0,
               water_ml |-> 0])

get_mfp_data_for_date(day, target_date) ==
    IF day.status = "error" THEN None            \* client.get_date raises
    ELSE IF day.status = "nodata" THEN None      \* not day
    ELSE
      LET calories_in == DictGet(day.totals, "calories")
          protein == DictGet(day.totals, "protein")
          carbs == DictGet(day.totals, "carbohydrates")
          fats == DictGet(day.totals, "fat")
          water_ml == day.water
          out == SumExercises(day.exercises, 0)
      IN  IF day.status = "water_error" THEN None    \* client.get_water raises
          ELSE IF ~out.ok THEN None
          ELSE IF calories_in = None THEN None       \* None - number raises
          ELSE
            LET calories_out_exercise == out.v
                net_calories == calories_in[1] - calories_out_exercise
            IN  Some([date |-> target_date,
                      calories_in |-> round(OrZero(calories_in)),
                      calories_out_exercise |-> round(calories_out_exercise),
                      net_calories |-> round(net_calories),
                      protein |-> round(OrZero(protein)),
                      carbs |-> round(OrZero(carbs)),
                      fats |-> round(OrZero(fats)),
                      water_ml |-> IF water_ml # None THEN water_ml[1] ELSE 0])

(***************************************************************************)
(* entry_exists                                                            *)
(***************************************************************************)
MatchesDate(page, entry_date_str) ==
    /\ NOTION_DATE_PROP \in DOMAIN page.properties
    /\ page.properties[NOTION_DATE_PROP] = Some(entry_date_str)

\* notion_client.databases.query with the exact-date filter
Query(db, entry_date_str) ==
    SelectSeq(db, LAMBDA page : MatchesDate(page, entry_date_str))

entry_exists(db, query_ok, entry_date_str) ==
    IF ~query_ok THEN None                       \* except: return None
    ELSE LET results == Query(db, entry_date_str)
         IN  IF results # <<>> THEN Some(results[1]) ELSE None

(***************************************************************************)
(* entry_needs_update                                                      *)
(***************************************************************************)
get_notion_number(props, prop_name) ==
    IF prop_name \in DOMAIN props /\ props[prop_name] # None
    THEN props[prop_name][1]
    ELSE 0

\* variant: without the second test (water property absent, new water > 0)
entry_needs_update_one_test(page, new_data) ==
    LET props == page.properties
    IN  \/ get_notion_number(props, NOTION_CALS_IN_PROP) # new_data.calories_in
        \/ get_notion_number(props, NOTION_CALS_OUT_PROP) # new_data.calories_out_exercise
        \/ get_notion_number(props, NOTION_NET_CALS_PROP) # new_data.net_calories
        \/ get_notion_number(props, NOTION_PROTEIN_PROP) # new_data.protein
        \/ get_notion_number(props, NOTION_CARBS_PROP) # new_data.carbs
        \/ get_notion_number(props, NOTION_FATS_PROP) # new_data.fats
        \/ (/\ NOTION_WATER_PROP \in DOMAIN props
            /\ get_notion_number(props, NOTION_WATER_PROP) # new_data.water_ml)

entry_needs_update(page, new_data) ==
    LET props == page.properties
    IN  IF \/ get_notion_number(props, NOTION_CALS_IN_PROP) # new_data.calories_in
           \/ get_notion_number(props, NOTION_CALS_OUT_PROP) # new_data.calories_out_exercise
           \/ get_notion_number(props, NOTION_NET_CALS_PROP) # new_data.net_calories
           \/ get_notion_number(props, NOTION_PROTEIN_PROP) # new_data.protein
           \/ get_notion_number(props, NOTION_CARBS_PROP) # new_data.carbs
           \/ get_notion_number(props, NOTION_FATS_PROP) # new_data.fats
           \/ (/\ NOTION_WATER_PROP \in DOMAIN props
               /\ get_notion_number(props, NOTION_WATER_PROP) # new_data.water_ml)
        THEN TRUE
        ELSE IF NOTION_WATER_PROP \notin DOMAIN props /\ new_data.water_ml > 0
        THEN TRUE
        ELSE FALSE

(***************************************************************************)
(* create_notion_entry / update_notion_entry: the payloads                 *)
(***************************************************************************)
CoreValues(data) ==
    [k \in CoreProps |->
        IF k = NOTION_CALS_IN_PROP THEN Some(data.calories_in)
        ELSE IF k = NOTION_CALS_OUT_PROP THEN Some(data.calories_out_exercise)
        ELSE IF k = NOTION_NET_CALS_PROP THEN Some(data.net_calories)
        ELSE IF k = NOTION_PROTEIN_PROP THEN Some(data.protein)
        ELSE IF k = NOTION_CARBS_PROP THEN Some(data.carbs)
        ELSE Some(data.fats)]

\* dict d with the keys of e set to e's values
Merge(d, e) ==
    [k \in DOMAIN d \cup DOMAIN e |-> IF k \in DOMAIN e THEN e[k] ELSE d[k]]

WaterValue(data) ==
    IF "water_ml" \in DOMAIN data
    THEN [k \in {NOTION_WATER_PROP} |-> Some(data.water_ml)]
    ELSE EmptyDict

\* variant: the water property is left out of a new page
create_properties_no_water(data) ==
    Merge([k \in {NOTION_DATE_PROP} |-> Some(data.date)], CoreValues(data))

create_properties(data) ==
    Merge(Merge([k \in {NOTION_DATE_PROP} |-> Some(data.date)], CoreValues(data)),
          WaterValue(data))

\* variant: the update carries the Date property too
update_properties_with_date(data) ==
    Merge(Merge([k \in {NOTION_DATE_PROP} |-> Some(data.date)], CoreValues(data)),
          WaterValue(data))

update_properties(data) == Merge(CoreValues(data), WaterValue(data))

(***************************************************************************)
(* The Notion store (the API behind notion_client)                         *)
(***************************************************************************)
\* pages.create: a new page; where later queries list it is the store's choice
StoreCreate(db, id, props, front) ==
    LET page == [id |-> id, properties |-> props]
    IN  IF front THEN <<page>> \o db ELSE Append(db, page)

\* pages.update: the named properties of page page_id are replaced
StoreUpdate(db, page_id, props) ==
    [i \in 1..Len(db) |->
        IF db[i].id = page_id
        THEN [db[i] EXCEPT !.properties = Merge(@, props)]
        ELSE db[i]]

Request(op, date, id, ok, props) ==
    [op |-> op, date |-> date, id |-> id, ok |-> ok, properties |-> props]

(***************************************************************************)
(* What the provider may answer                                            *)
(***************************************************************************)
TotalsKeys == {"calories", "protein", "carbohydrates", "fat"}

Totals(c, p, cb, f) ==
    MkDict(TotalsKeys,
           [k \in TotalsKeys |->
               IF k = "calories" THEN c
               ELSE IF k = "protein" THEN p
               ELSE IF k = "carbohydrates" THEN cb
               ELSE f])

\* one logged exercise entry: its nutrition_information
Entry(burned) == MkDict({"calories burned"}, [k \in {"calories burned"} |-> burned])

Day(status, totals, exercises, water) ==
    [status |-> status, totals |-> totals, exercises |-> exercises, water |-> water]

NoRead == Day("none", EmptyDict, <<>>, None)   \* before any read

FailedReads ==
    {Day(s, EmptyDict, <<>>, None) : s \in {"error", "nodata", "water_error"}}

\* the days a run of main may be answered with
PipeDays ==
    {Day("ok", Totals(Some(2 * Scale), Absent, Absent, Some(Scale)), <<>>, None),
     Day("ok", Totals(Some(2 * Scale), Some(MaxVal), Absent, Some(Scale)),
         << <<Entry(Some(MaxVal * Scale))>> >>, Some(1))}

PipeResponses == PipeDays \cup FailedReads

\* the days a direct call of get_mfp_data_for_date may be answered with
FnNumbers == {Some(v) : v \in 0..MaxVal}

FnExercises ==
    {<<>>, << <<>> >>}
    \cup {<< <<Entry(b)>> >> : b \in {Absent, None} \cup FnNumbers}
    \cup {<< <<Entry(Some(1)), Entry(b)>> >> : b \in {Absent, Some(MaxVal)}}
    \cup {<< <<Entry(Some(MaxVal))>>, <<Entry(b)>> >> : b \in {None, Some(MaxVal)}}

FnDays ==
    {Day("ok", Totals(c, p, cb, f), e, w) :
        c \in {Absent, None} \cup FnNumbers,
        p \in {Absent, None, Some(MaxVal)},
        cb \in {Absent, Some(1)},
        f \in {None, Some(2)},
        e \in FnExercises,
        w \in {None} \cup FnNumbers}

FnResponses == FnDays \cup FailedReads

\* the stored pages a direct call of entry_needs_update is given: the page
\* written from the snapshot, with up to MaxPerturb number properties changed
PageValues == {Absent, None} \cup {Some(v) : v \in 0..(MaxVal + 1)}

RECURSIVE Perturbed(_, _)
Perturbed(props, n) ==
    IF n = 0 THEN {props}
    ELSE LET less == Perturbed(props, n - 1)
         IN  less \cup
             {MkDict(DOMAIN q \cup {k}, [j \in DOMAIN q \cup {k} |-> IF j = k THEN v ELSE q[j]]) :
                 q \in less, k \in NumberProps, v \in PageValues}

PagesNear(data) ==
    {[id |-> 1, properties |-> q] : q \in Perturbed(create_properties(data), MaxPerturb)}

\* the stores a first run may find: at most one page per date
\* (a page with only its date, and pages made before the water property was)
InitPages ==
    {[id |-> 1, properties |-> [k \in DOMAIN q \ {NOTION_WATER_PROP} |-> q[k]]] :
        q \in {create_properties(get_mfp_data_for_date(d, 1)[1]) : d \in PipeDays}}
    \cup {[id |-> 1, properties |-> [k \in {NOTION_DATE_PROP} |-> Some(1)]]}

InitStores == {<<>>} \cup {<<page>> : page \in InitPages}

(***************************************************************************)
(* main                                                                    *)
(***************************************************************************)
\* variant: only the token is checked
config_missing_token_only(token, database_id) == ~token

\* if not NOTION_TOKEN: return / if not NOTION_DATABASE_ID: return
config_missing(token, database_id) == ~token \/ ~database_id

\* variant: a changed record is written as a new page
Reconcile_create_on_change(page, data) ==
    IF page # None /\ ~entry_needs_update(page[1], data[1]) THEN "noop" ELSE "create"

\* the branch of the loop body taken for a date
Reconcile(page, data) ==
    IF page # None
    THEN IF entry_needs_update(page[1], data[1]) THEN "update" ELSE "noop"
    ELSE "create"

target_date == dates_to_sync[idx + 1]

Init ==
    /\ NOTION_TOKEN = TRUE
    /\ NOTION_DATABASE_ID = TRUE
    /\ store \in InitStores
    /\ next_id = 2
    /\ today_local = 1
    /\ dates_to_sync = <<>>
    /\ idx = 0
    /\ pc = "idle"
    /\ resp = NoRead
    /\ mfp_data = None
    /\ existing_page = None
    /\ needs = FALSE
    /\ decision = "none"
    /\ log = <<>>
    /\ written = {}
    /\ reads = 0

\* a run that stops at the configuration check
MainConfigError ==
    /\ pc = "idle"
    /\ \E token \in BOOLEAN, database_id \in BOOLEAN :
          /\ config_missing(token, database_id)
          /\ NOTION_TOKEN' = token
          /\ NOTION_DATABASE_ID' = database_id
    /\ log' = <<>>
    /\ decision' = "config_error"
    /\ UNCHANGED <<store, next_id, today_local, dates_to_sync, idx, pc, resp,
                   mfp_data, existing_page, needs, written, reads>>

\* a run in which get_mfp_client raises
MainClientError ==
    /\ pc = "idle"
    /\ \E token \in BOOLEAN, database_id \in BOOLEAN :
          /\ ~config_missing(token, database_id)
          /\ NOTION_TOKEN' = token
          /\ NOTION_DATABASE_ID' = database_id
    /\ log' = <<>>
    /\ decision' = "client_error"
    /\ UNCHANGED <<store, next_id, today_local, dates_to_sync, idx, pc, resp,
                   mfp_data, existing_page, needs, written, reads>>

\* a run that gets both clients and builds dates_to_sync
MainBegin ==
    /\ pc = "idle"
    /\ \E token \in BOOLEAN, database_id \in BOOLEAN :
          /\ ~config_missing(token, database_id)
          /\ NOTION_TOKEN' = token
          /\ NOTION_DATABASE_ID' = database_id
    /\ log' = <<Request("client", 0, 0, TRUE, EmptyDict)>>
    /\ \E n \in 1..MaxDays :
          /\ reads + n <= MaxReads      \* the run's reads fit the bound
          /\ dates_to_sync' = [i \in 1..n |-> today_local - (i - 1)]
    /\ idx' = 0
    /\ pc' = "loop"
    /\ mfp_data' = None
    /\ existing_page' = None
    /\ decision' = "none"
    /\ UNCHANGED <<store, next_id, today_local, resp, needs, written, reads>>

\* mfp_data = get_mfp_data_for_date(...); if not mfp_data: continue
GetData ==
    /\ pc = "loop"
    /\ idx < Len(dates_to_sync)
    /\ \E day \in PipeResponses :
          LET data == get_mfp_data_for_date(day, target_date)
          IN  /\ resp' = day
              /\ mfp_data' = data
              /\ log' = Append(log, Request("read", target_date, 0, data # None, EmptyDict))
              /\ IF data = None
                 THEN /\ idx' = idx + 1
                      /\ pc' = "loop"
                      /\ decision' = "skip"
                 ELSE /\ idx' = idx
                      /\ pc' = "locate"
                      /\ decision' = "none"
    /\ reads' = reads + 1
    /\ UNCHANGED <<NOTION_TOKEN, NOTION_DATABASE_ID, store, next_id, today_local,
                   dates_to_sync, existing_page, needs, written>>

\* existing_page = entry_exists(notion, NOTION_DATABASE_ID, date_str)
EntryExists ==
    /\ pc = "locate"
    /\ \E query_ok \in BOOLEAN :
          /\ existing_page' = entry_exists(store, query_ok, target_date)
          /\ log' = Append(log, Request("query", target_date, 0, query_ok, EmptyDict))
    /\ pc' = "reconcile"
    /\ UNCHANGED <<NOTION_TOKEN, NOTION_DATABASE_ID, store, next_id, today_local,
                   dates_to_sync, idx, resp, mfp_data, needs, decision, written, reads>>

\* the else branch of: if entry_needs_update(existing_page, mfp_data)
NoChanges ==
    /\ pc = "reconcile"
    /\ Reconcile(existing_page, mfp_data) = "noop"
    /\ needs' = FALSE
    /\ decision' = "noop"
    /\ idx' = idx + 1
    /\ pc' = "loop"
    /\ UNCHANGED <<NOTION_TOKEN, NOTION_DATABASE_ID, store, next_id, today_local,
                   dates_to_sync, resp, mfp_data, existing_page, log, written, reads>>

\* update_notion_entry(notion, existing_page['id'], mfp_data)
UpdateNotionEntry ==
    /\ pc = "reconcile"
    /\ Reconcile(existing_page, mfp_data) = "update"
    /\ needs' = TRUE
    /\ decision' = "update"
    /\ LET page_id == existing_page[1].id
           properties == update_properties(mfp_data[1])
       IN  \E ok \in BOOLEAN :
              /\ log' = Append(log, Request("update", target_date, page_id, ok, properties))
              /\ store' = IF ok THEN StoreUpdate(store, page_id, properties) ELSE store
              /\ written' = IF ok
                            THEN {w \in written : w[1] # page_id} \cup {<<page_id, mfp_data[1]>>}
                            ELSE written
    /\ idx' = idx + 1
    /\ pc' = "loop"
    /\ UNCHANGED <<NOTION_TOKEN, NOTION_DATABASE_ID, next_id, today_local,
                   dates_to_sync, resp, mfp_data, existing_page, reads>>

\* variant: a failed create is attempted again
CreateNotionEntry_retry ==
    /\ pc = "reconcile"
    /\ Reconcile(existing_page, mfp_data) = "create"
    /\ decision' = "create"
    /\ LET properties == create_properties(mfp_data[1])
       IN  \E ok \in BOOLEAN, front \in BOOLEAN :
              /\ log' = Append(log, Request("create", target_date, IF ok THEN next_id ELSE 0,
                                            ok, properties))
              /\ store' = IF ok THEN StoreCreate(store, next_id, properties, front) ELSE store
              /\ next_id' = IF ok THEN next_id + 1 ELSE next_id
              /\ written' = IF ok THEN written \cup {<<next_id, mfp_data[1]>>} ELSE written
              /\ idx' = IF ok \/ Len(log) > 3 THEN idx + 1 ELSE idx
              /\ pc' = IF ok \/ Len(log) > 3 THEN "loop" ELSE "reconcile"
    /\ UNCHANGED <<NOTION_TOKEN, NOTION_DATABASE_ID, today_local, dates_to_sync,
                   resp, mfp_data, existing_page, needs, reads>>

\* create_notion_entry(notion, NOTION_DATABASE_ID, mfp_data)
CreateNotionEntry ==
    /\ pc = "reconcile"
    /\ Reconcile(existing_page, mfp_data) = "create"
    /\ decision' = "create"
    /\ LET properties == create_properties(mfp_data[1])
       IN  \E ok \in BOOLEAN, front \in BOOLEAN :
              /\ log' = Append(log, Request("create", target_date, IF ok THEN next_id ELSE 0,
                                            ok, properties))
              /\ store' = IF ok THEN StoreCreate(store, next_id, properties, front) ELSE store
              /\ next_id' = IF ok THEN next_id + 1 ELSE next_id
              /\ written' = IF ok THEN written \cup {<<next_id, mfp_data[1]>>} ELSE written
    /\ idx' = idx + 1
    /\ pc' = "loop"
    /\ UNCHANGED <<NOTION_TOKEN, NOTION_DATABASE_ID, today_local, dates_to_sync,
                   resp, mfp_data, existing_page, needs, reads>>

\* the loop is exhausted: the process ends and its variables with it; the
\* next run may start on a later day
MainFinish ==
    /\ pc = "loop"
    /\ idx = Len(dates_to_sync)
    /\ pc' = "idle"
    /\ today_local' \in {d \in {today_local, today_local + 1} : d <= MaxDate}
    /\ dates_to_sync' = <<>>
    /\ idx' = 0
    /\ resp' = NoRead
    /\ mfp_data' = None
    /\ existing_page' = None
    /\ needs' = FALSE
    /\ decision' = "none"
    /\ log' = <<>>
    /\ UNCHANGED <<NOTION_TOKEN, NOTION_DATABASE_ID, store, next_id, written, reads>>

Next ==
    \/ MainConfigError
    \/ MainClientError
    \/ MainBegin
    \/ GetData
    \/ EntryExists
    \/ NoChanges
    \/ UpdateNotionEntry
    \/ CreateNotionEntry
    \/ MainFinish

Spec == Init /\ [][Next]_vars

(***************************************************************************)
(* Direct calls of the two pure functions                                  *)
(***************************************************************************)
InitFn ==
    /\ NOTION_TOKEN = TRUE
    /\ NOTION_DATABASE_ID = TRUE
    /\ store = <<>>
    /\ next_id = 2
    /\ today_local = 1
    /\ dates_to_sync = <<>>
    /\ idx = 0
    /\ pc = "fn_call"
    /\ resp \in FnResponses
    /\ mfp_data = None
    /\ existing_page = None
    /\ needs = FALSE
    /\ decision = "none"
    /\ log = <<>>
    /\ written = {}
    /\ reads = 0

FnGetData ==
    /\ pc = "fn_call"
    /\ mfp_data' = get_mfp_data_for_date(resp, today_local)
    /\ pc' = "fn_got"
    /\ UNCHANGED <<NOTION_TOKEN, NOTION_DATABASE_ID, store, next_id, today_local,
                   dates_to_sync, idx, resp, existing_page, needs, decision, log,
                   written, reads>>

FnNeedsUpdate ==
    /\ pc = "fn_got"
    /\ mfp_data # None
    /\ \E page \in PagesNear(mfp_data[1]) :
          /\ existing_page' = Some(page)
          /\ needs' = entry_needs_update(page, mfp_data[1])
    /\ pc' = "fn_done"
    /\ UNCHANGED <<NOTION_TOKEN, NOTION_DATABASE_ID, store, next_id, today_local,
                   dates_to_sync, idx, resp, mfp_data, decision, log, written, reads>>

NextFn == FnGetData \/ FnNeedsUpdate

SpecFn == InitFn /\ [][NextFn]_vars

\* the blocking calls of a run return, so a run that can take a step takes it
RunStep ==
    \/ GetData
    \/ EntryExists
    \/ NoChanges
    \/ UpdateNotionEntry
    \/ CreateNotionEntry
    \/ MainFinish

FairSpec == Spec /\ WF_vars(RunStep)

(***************************************************************************)
(* Properties                                                              *)
(***************************************************************************)
Writes == {"create", "update"}

LastRequest == log[Len(log)]

DateOf(page) ==
    IF NOTION_DATE_PROP \in DOMAIN page.properties
    THEN page.properties[NOTION_DATE_PROP]
    ELSE None

\* C1: the store holds at most one page per date value, whatever the outcomes
\* of the provider reads, the store queries and the store writes were.
C1_AtMostOnePerDate ==
    \A i, j \in 1..Len(store) :
        (i # j /\ DateOf(store[i]) # None) => DateOf(store[i]) # DateOf(store[j])

\* C2: the snapshot's net_calories is the difference of the snapshot's own
\* calories_in and calories_out_exercise, for all provider values.
C2_NetIsDifference ==
    mfp_data # None =>
        mfp_data[1].net_calories =
            mfp_data[1].calories_in - mfp_data[1].calories_out_exercise

SnapshotNumbers(data) ==
    {data.calories_in, data.calories_out_exercise, data.net_calories,
     data.protein, data.carbs, data.fats, data.water_ml}

MissingIsZero(totals, data) ==
    /\ "calories" \notin DOMAIN totals => data.calories_in = 0
    /\ "protein" \notin DOMAIN totals => data.protein = 0
    /\ "carbohydrates" \notin DOMAIN totals => data.carbs = 0
    /\ "fat" \notin DOMAIN totals => data.fats = 0

StoredOrZero(props, name) ==
    IF name \in DOMAIN props THEN OrZero(props[name]) ELSE 0

CoreFieldsMatch(props, data) ==
    /\ StoredOrZero(props, NOTION_CALS_IN_PROP) = data.calories_in
    /\ StoredOrZero(props, NOTION_CALS_OUT_PROP) = data.calories_out_exercise
    /\ StoredOrZero(props, NOTION_NET_CALS_PROP) = data.net_calories
    /\ StoredOrZero(props, NOTION_PROTEIN_PROP) = data.protein
    /\ StoredOrZero(props, NOTION_CARBS_PROP) = data.carbs
    /\ StoredOrZero(props, NOTION_FATS_PROP) = data.fats

WaterMatches(props, data) ==
    \/ /\ NOTION_WATER_PROP \in DOMAIN props
       /\ OrZero(props[NOTION_WATER_PROP]) = data.water_ml
    \/ /\ NOTION_WATER_PROP \notin DOMAIN props
       /\ data.water_ml = 0

\* C4: entry_needs_update returns False iff the six core fields of the stored
\* page (0 when missing or null) equal the snapshot's and the water field
\* either is stored and equal, or is not stored while the snapshot's is 0.
C4_NeedsUpdateIff ==
    pc = "fn_done" =>
        (needs = FALSE <=>
            /\ CoreFieldsMatch(existing_page[1].properties, mfp_data[1])
            /\ WaterMatches(existing_page[1].properties, mfp_data[1]))

C4_Witness ==
    /\ pc = "fn_done"
    /\ needs = FALSE
    /\ NOTION_WATER_PROP \notin DOMAIN existing_page[1].properties
    /\ mfp_data[1].water_ml = 0
    /\ mfp_data[1].protein > 0

\* C5: for a date with a snapshot exactly one of No-Op, Create, Update is
\* taken: Create iff the locator returned no page, Update iff it returned one
\* and the predicate is true (sent against the id of that first-matching
\* page), No-Op iff it returned one and the predicate is false.
C5_OneDecision ==
    /\ pc = "reconcile" =>
          LET matches == Query(store, LastRequest.date)
          IN  /\ LastRequest.op = "query"
              /\ existing_page =
                    IF LastRequest.ok /\ matches # <<>> THEN Some(matches[1]) ELSE None
    /\ (pc = "loop" /\ decision \in {"noop", "create", "update"}) =>
          /\ decision = "create" <=> existing_page = None
          /\ decision = "update" <=>
                (existing_page # None /\ entry_needs_update(existing_page[1], mfp_data[1]))
          /\ decision = "noop" <=>
                (existing_page # None /\ ~entry_needs_update(existing_page[1], mfp_data[1]))
          /\ decision = "create" => LastRequest.op = "create"
          /\ decision = "update" =>
                (LastRequest.op = "update" /\ LastRequest.id = existing_page[1].id)
          /\ decision = "noop" => LastRequest.op = "query"
    /\ \A i \in 1..Len(log) :
          log[i].op \in Writes => (i > 1 /\ log[i - 1].op = "query")

C5_Witness ==
    /\ pc = "loop"
    /\ decision = "update"
    /\ LastRequest.ok
    /\ Len(Query(store, LastRequest.date)) > 1

IsRead(step_log, i) == step_log[i].op = "read"

\* C6: a read that yields no data or raises gives an absent result; no store
\* request is made for that date, the store is unchanged, and the loop goes on
\* to the next date.
C6_SkipStep ==
    (pc = "loop" /\ Len(log') = Len(log) + 1 /\ resp'.status # "ok") =>
        /\ mfp_data' = None
        /\ log' = Append(log, Request("read", target_date, 0, FALSE, EmptyDict))
        /\ store' = store
        /\ pc' = "loop"
        /\ idx' = idx + 1
        /\ idx' <= Len(dates_to_sync)

C6_NoStoreRequest ==
    \A i \in 1..Len(log) :
        (IsRead(log, i) /\ ~log[i].ok) =>
            /\ i < Len(log) => IsRead(log, i + 1)
            /\ \A j \in 1..Len(log) :
                  (log[j].op # "client" /\ log[j].date = log[i].date) => j = i

C6_Skipped == []C6_NoStoreRequest /\ [][C6_SkipStep]_vars

C6_Witness ==
    \E i \in 1..Len(log) :
        /\ IsRead(log, i)
        /\ ~log[i].ok
        /\ i < Len(log)
        /\ log[Len(log)].op \in Writes

\* C7: with the token or the database id missing, a run ends without creating
\* a provider client and without any provider read, store query or store write.
C7_NoContactStep ==
    ~(NOTION_TOKEN' /\ NOTION_DATABASE_ID') =>
        /\ log' = <<>>
        /\ store' = store
        /\ pc' = "idle"
        /\ decision' = "config_error"

C7_ConfigFatal == [][C7_NoContactStep]_vars

C7_Witness ==
    /\ decision = "config_error"
    /\ NOTION_TOKEN
    /\ ~NOTION_DATABASE_ID

PageWithId(db, id) == CHOOSE page \in {db[i] : i \in 1..Len(db)} : page.id = id

\* C8: an update carries exactly the six core fields and the water field with
\* the snapshot's values and no Date; after a successful update the page's
\* date and id are unchanged and its seven numbers are the snapshot's.
C8_UpdateStep ==
    (pc = "reconcile" /\ Len(log') = Len(log) + 1 /\ log'[Len(log')].op = "update") =>
        LET req == log'[Len(log')]
            data == mfp_data[1]
        IN  /\ DOMAIN req.properties = NumberProps
            /\ NOTION_DATE_PROP \notin DOMAIN req.properties
            /\ CoreFieldsMatch(req.properties, data)
            /\ req.properties[NOTION_WATER_PROP] = Some(data.water_ml)
            /\ \A k \in NumberProps : req.properties[k] # None
            /\ req.ok =>
                  /\ Len(store') = Len(store)
                  /\ \A i \in 1..Len(store) :
                        /\ store'[i].id = store[i].id
                        /\ DateOf(store'[i]) = DateOf(store[i])
                        /\ store[i].id # req.id => store'[i] = store[i]
                        /\ store[i].id = req.id =>
                              \A k \in NumberProps :
                                  store'[i].properties[k] = req.properties[k]

C8_UpdateLeavesDate == [][C8_UpdateStep]_vars

C8_Witness ==
    /\ pc = "loop"
    /\ decision = "update"
    /\ LastRequest.ok
    /\ StoredOrZero(existing_page[1].properties, NOTION_PROTEIN_PROP) # mfp_data[1].protein
    /\ StoredOrZero(PageWithId(store, LastRequest.id).properties, NOTION_PROTEIN_PROP)
          = mfp_data[1].protein

ReadsUpTo(i) == Cardinality({j \in 1..i : IsRead(log, j)})

\* C9: in a run each date causes at most one write request; the requests of a
\* date are read, query, write in that order and all precede the next date's;
\* a failed write leaves the store as it was, is not repeated, and the run
\* goes on to the next date and ends.
C9_LogOrder ==
    /\ \A i \in 1..Len(log) :
          /\ log[i].op = "client" <=> i = 1
          /\ IsRead(log, i) => log[i].date = dates_to_sync[ReadsUpTo(i)]
          /\ log[i].op = "query" =>
                (IsRead(log, i - 1) /\ log[i - 1].ok /\ log[i - 1].date = log[i].date)
          /\ log[i].op \in Writes =>
                (log[i - 1].op = "query" /\ log[i - 1].date = log[i].date)
    /\ \A d \in {log[i].date : i \in 1..Len(log)} :
          Cardinality({i \in 1..Len(log) : log[i].op \in Writes /\ log[i].date = d}) <= 1

C9_FailedWriteStep ==
    (Len(log') = Len(log) + 1 /\ log'[Len(log')].op \in Writes /\ ~log'[Len(log')].ok) =>
        /\ store' = store
        /\ pc' = "loop"
        /\ idx' = idx + 1

C9_OneWritePerDate ==
    /\ []C9_LogOrder
    /\ [][C9_FailedWriteStep]_vars
    /\ (pc # "idle") ~> (pc = "idle")

C9_Witness ==
    \E i \in 1..Len(log) :
        /\ log[i].op \in Writes
        /\ ~log[i].ok
        /\ i < Len(log)
        /\ log[Len(log)].op \in Writes

\* C10: a page written by a successful create or update from a snapshot needs
\* no update against that snapshot, and a later run that reads the same
\* snapshot and is handed that page chooses No-Op and writes nothing.
C10_WrittenNeedsNoUpdate ==
    \A w \in written : \A i \in 1..Len(store) :
        store[i].id = w[1] => ~entry_needs_update(store[i], w[2])

C10_ResyncStep ==
    (/\ pc = "reconcile"
     /\ pc' # "reconcile"
     /\ existing_page # None
     /\ <<existing_page[1].id, mfp_data[1]>> \in written) =>
        /\ decision' = "noop"
        /\ log' = log
        /\ store' = store

C10_Idempotent == []C10_WrittenNeedsNoUpdate /\ [][C10_ResyncStep]_vars

C10_Witness ==
    /\ pc = "loop"
    /\ decision = "noop"
    /\ <<existing_page[1].id, mfp_data[1]>> \in written
    /\ mfp_data[1].water_ml > 0

====
